---- MODULE Spec2Model ----
(***************************************************************************)
(* Sparse-Merkle-tree node IDs, node rows and tile merging of the crate    *)
(* crates/smt (node.rs, node/mod.rs, tile.rs).                             *)
(***************************************************************************)
EXTENDS Integers, Sequences, FiniteSets, TLC

(***************************************************************************)
(* Bounds of the model.                                                    *)
(***************************************************************************)
\* Longest raw node vector handed to NodesRow::try_new.
MaxLen == 2

\* Longest raw node vector when only NodesRow::try_new is exercised.
MaxRow == 3

\* Longest byte buffer handed to ID::new_id.
MaxBytes == 2

\* Most calls of parallel_hash that are in progress together.
MaxCalls == 2

\* Most fields of one multipart request.
MaxFields == 2

(***************************************************************************)
(* Byte arithmetic (u8): the operators &, ! and << of node.rs.             *)
(***************************************************************************)
RECURSIVE Pow2(_)
Pow2(n) == IF n = 0 THEN 1 ELSE 2 * Pow2(n - 1)

\* !x on a u8
BitNot(x) == 255 - x

\* x & y on a u8, bit by bit from the least significant bit
RECURSIVE BitAndN(_, _, _)
BitAndN(x, y, n) ==
    IF n = 0 THEN 0
    ELSE (IF x % 2 = 1 /\ y % 2 = 1 THEN 1 ELSE 0)
         + 2 * BitAndN(x \div 2, y \div 2, n - 1)

BitAnd(x, y) == BitAndN(x, y, 8)

(***************************************************************************)
(* node.rs: ID                                                             *)
(***************************************************************************)
\* A panic!() of the constructors: no ID is returned.
Panic == [panic |-> TRUE]

IsPanic(x) == "panic" \in DOMAIN x

\* ID::default(): empty path, last = 0, bits = 0
default == [path |-> <<>>, last |-> 0, bits |-> 0]

\* split(bits): (number of full bytes, number of bits of the tail byte)
split(bits) == <<(bits - 1) \div 8, 1 + ((bits - 1) % 8)>>

\* safe_shift_left(input: i32, shift_by: u8) -> u8; the loop shifts by
\* shift_by % 32 and subtracts that from shift_by (a shift_by that is a
\* positive multiple of 32 would never end; callers pass 8 - bits <= 8).
\* The i32 is returned "as u8": only its low 8 bits are kept, and a left
\* shift never moves a higher bit into them, so the loop carries the low
\* 16 bits of the i32.
RECURSIVE safe_shift_left_loop(_, _)
safe_shift_left_loop(input, shift_by) ==
    IF shift_by = 0 \/ shift_by % 32 = 0 THEN input
    ELSE safe_shift_left_loop(
            IF shift_by % 32 >= 16 THEN 0
            ELSE (input * Pow2(shift_by % 32)) % Pow2(16),
            shift_by - (shift_by % 32))

\* safe_shift_left as the plain wrapping shift it replaces: the shift count
\* is taken modulo the width of the byte, so a shift by 8 leaves the input.
safe_shift_left_wrapping(input, shift_by) == (input * Pow2(shift_by % 8)) % 256

safe_shift_left(input, shift_by) == safe_shift_left_loop(input, shift_by) % 256

\* new_masked_id without the masking of the last byte.
new_masked_id_unmasked(path, last, bits) == [path |-> path, last |-> last, bits |-> bits]

\* ID::new_masked_id: unset the unused low bits of the last byte
new_masked_id(path, last, bits) ==
    LET shift == safe_shift_left(1, 8 - bits)
        new_byte == IF shift = 0 THEN 255 ELSE shift - 1
    IN  [path |-> path, last |-> BitAnd(last, BitNot(new_byte)), bits |-> bits]

\* new_id keeping the whole tail byte whatever the bit count.
new_id_full_tail(path, bits) ==
    IF bits = 0 THEN default
    ELSE IF bits > Len(path) * 8 THEN Panic
    ELSE LET s == split(bits)
         IN  new_masked_id(SubSeq(path, 1, s[1]), path[s[1] + 1], 8)

\* ID::new_id(path, bits)
new_id(path, bits) ==
    IF bits = 0 THEN default
    ELSE IF bits > Len(path) * 8 THEN Panic
    ELSE LET s == split(bits)
         IN  new_masked_id(SubSeq(path, 1, s[1]), path[s[1] + 1], s[2])

\* new_id_with_last storing the last byte as it was passed.
new_id_with_last_raw(path, last, bits) ==
    IF bits > 8 THEN Panic
    ELSE IF bits = 0 /\ path # <<>> THEN Panic
    ELSE [path |-> path, last |-> last, bits |-> bits]

\* new_id_with_last without the check of bits = 0 on a non-empty path.
new_id_with_last_lenient(path, last, bits) ==
    IF bits > 8 THEN Panic
    ELSE new_masked_id(path, last, bits)

\* ID::new_id_with_last(path, last, bits)
new_id_with_last(path, last, bits) ==
    IF bits > 8 THEN Panic
    ELSE IF bits = 0 /\ path # <<>> THEN Panic
    ELSE new_masked_id(path, last, bits)

\* ID::bit_length
bit_length(id) == Len(id.path) * 8 + id.bits

\* prefix keeping all the full bytes of the receiver.
prefix_whole_path(id, bits) ==
    IF bits = 0 THEN default
    ELSE IF bits > bit_length(id) THEN Panic
    ELSE LET s == split(bits)
             last == IF s[1] # Len(id.path) THEN id.path[s[1] + 1] ELSE id.last
         IN  new_masked_id(id.path, last, s[2])

\* prefix taking the tail byte from the receiver's last byte in every case.
prefix_self_last(id, bits) ==
    IF bits = 0 THEN default
    ELSE IF bits > bit_length(id) THEN Panic
    ELSE LET s == split(bits)
         IN  new_masked_id(SubSeq(id.path, 1, s[1]), id.last, s[2])

\* ID::prefix(bits)
prefix(id, bits) ==
    IF bits = 0 THEN default
    ELSE IF bits > bit_length(id) THEN Panic
    ELSE LET s == split(bits)
             last == IF s[1] # Len(id.path) THEN id.path[s[1] + 1] ELSE id.last
         IN  new_masked_id(SubSeq(id.path, 1, s[1]), last, s[2])

\* format!("{:b}", v): the binary digits of v, most significant first,
\* as characters; one digit for 0.
RECURSIVE fmt_b(_)
fmt_b(v) ==
    IF v < 2 THEN <<IF v = 1 THEN "1" ELSE "0">>
    ELSE Append(fmt_b(v \div 2), IF v % 2 = 1 THEN "1" ELSE "0")

\* format!("{:0width$b}", v): fmt_b filled with '0' on the left up to
\* width characters; a longer number is not cut.
fmt_0b(v, width) ==
    LET digits == fmt_b(v)
    IN  IF Len(digits) >= width THEN digits
        ELSE [i \in 1..width |->
                IF i <= width - Len(digits) THEN "0" ELSE digits[i - (width - Len(digits))]]

\* the loop of Binary::fmt over the full bytes: "{:08b}" and a space each
RECURSIVE fmt_path(_)
fmt_path(path) ==
    IF path = <<>> THEN <<>>
    ELSE fmt_0b(Head(path), 8) \o <<" ">> \o fmt_path(Tail(path))

\* Binary::fmt writing the partial byte without the fill.
Binary_unpadded(id) ==
    <<"[">> \o fmt_path(id.path) \o fmt_b(id.last \div Pow2(8 - id.bits)) \o <<"]">>

\* impl Binary for ID: the text as a sequence of characters
Binary(id) ==
    <<"[">> \o fmt_path(id.path) \o fmt_0b(id.last \div Pow2(8 - id.bits), id.bits) \o <<"]">>

\* impl Display for ID
Display(id) ==
    IF bit_length(id) = 0 THEN <<"[", "]">> ELSE Binary(id)

\* Ordering of byte slices: lexicographic, a proper prefix is smaller.
RECURSIVE SliceCmp(_, _)
SliceCmp(a, b) ==
    IF a = <<>> /\ b = <<>> THEN 0
    ELSE IF a = <<>> THEN -1
    ELSE IF b = <<>> THEN 1
    ELSE IF Head(a) < Head(b) THEN -1
    ELSE IF Head(a) > Head(b) THEN 1
    ELSE SliceCmp(Tail(a), Tail(b))

\* Ord for ID: the fields in declaration order (path, last, bits).
\* Result: -1 (Less), 0 (Equal), 1 (Greater).
IdCmp(a, b) ==
    LET p == SliceCmp(a.path, b.path)
    IN  IF p # 0 THEN p
        ELSE IF a.last < b.last THEN -1
        ELSE IF a.last > b.last THEN 1
        ELSE IF a.bits < b.bits THEN -1
        ELSE IF a.bits > b.bits THEN 1
        ELSE 0

(***************************************************************************)
(* node/mod.rs: Node, NodesRow, prepare                                    *)
(***************************************************************************)
\* Node::new(id, hash); the 32-byte hash is an opaque value.
Node(id, hash) == [id |-> id, hash |-> hash]

\* impl Ord for Node: by id only
NodeCmp(a, b) == IdCmp(a.id, b.id)

\* Results: Ok(NodesRow) and Err(String); the error keeps the numbers that
\* the format! string prints.
OkRow(nodes) == [ok |-> TRUE, row |-> nodes]

ErrDepth(index, got, want) ==
    [ok |-> FALSE, kind |-> "invalid depth", index |-> index, got |-> got, want |-> want]

\* first_invalid with the scan keeping the last mismatch it meets.
RECURSIVE first_invalid_last(_, _, _)
first_invalid_last(nodes, depth, i) ==
    IF i > Len(nodes) THEN -1
    ELSE LET later == first_invalid_last(nodes, depth, i + 1)
         IN  IF later # -1 THEN later
             ELSE IF bit_length(nodes[i].id) # depth THEN i - 1
             ELSE -1

\* The for loop of prepare: the first index (0-based) whose depth differs,
\* or -1 when the loop runs to its end.
RECURSIVE first_invalid(_, _, _)
first_invalid(nodes, depth, i) ==
    IF i > Len(nodes) THEN -1
    ELSE IF bit_length(nodes[i].id) # depth THEN i - 1
    ELSE first_invalid(nodes, depth, i + 1)

\* The sequence without its i-th element.
RemoveAt(s, i) == SubSeq(s, 1, i - 1) \o SubSeq(s, i + 1, Len(s))

\* The elements of s whose id is (is not) the id x, in their order in s.
RECURSIVE WithId(_, _, _)
WithId(s, x, same) ==
    IF s = <<>> THEN <<>>
    ELSE IF (Head(s).id = x) = same THEN <<Head(s)>> \o WithId(Tail(s), x, same)
    ELSE WithId(Tail(s), x, same)

\* Every ordering of the elements of s.
RECURSIVE Orderings(_)
Orderings(s) ==
    IF s = <<>> THEN {<<>>}
    ELSE UNION {{<<s[i]>> \o t : t \in Orderings(RemoveAt(s, i))} : i \in 1..Len(s)}

\* nodes.sort_unstable(): some ordering of the same elements that is sorted
\* by Ord for Node; the order among nodes of equal id is not specified, so
\* every ordering of a run of equal ids is a possible outcome.
RECURSIVE sort_unstable(_)
sort_unstable(nodes) ==
    IF nodes = <<>> THEN {<<>>}
    ELSE LET least == CHOOSE n \in {nodes[i] : i \in 1..Len(nodes)} :
                          \A i \in 1..Len(nodes) : NodeCmp(n, nodes[i]) <= 0
         IN  {run \o rest : run \in Orderings(WithId(nodes, least.id, TRUE)),
                            rest \in sort_unstable(WithId(nodes, least.id, FALSE))}

\* nodes.dedup(): drops each element that is equal (derived PartialEq: id
\* and hash) to the element before it.
RECURSIVE dedup(_)
dedup(nodes) ==
    IF Len(nodes) <= 1 THEN nodes
    ELSE LET front == dedup(SubSeq(nodes, 1, Len(nodes) - 1))
             x == nodes[Len(nodes)]
         IN  IF front[Len(front)] = x THEN front ELSE Append(front, x)

\* prepare with the sort left out: only the depth check and dedup.
prepare_unsorted(nodes, depth) ==
    LET bad == first_invalid(nodes, depth, 1)
    IN  IF bad # -1
        THEN {[res |-> ErrDepth(bad, bit_length(nodes[bad + 1].id), depth),
               vec |-> nodes]}
        ELSE {[res |-> [ok |-> TRUE], vec |-> dedup(nodes)]}

\* prepare(&mut nodes, depth): the possible outcomes, each the returned
\* Result and the vector as the call leaves it.
prepare(nodes, depth) ==
    LET bad == first_invalid(nodes, depth, 1)
    IN  IF bad # -1
        THEN {[res |-> ErrDepth(bad, bit_length(nodes[bad + 1].id), depth),
               vec |-> nodes]}
        ELSE {[res |-> [ok |-> TRUE], vec |-> dedup(s)] : s \in sort_unstable(nodes)}

\* NodesRow::try_new(nodes): the possible outcomes (res: the Result
\* returned, vec: the vector after prepare).
try_new(nodes) ==
    IF nodes = <<>> THEN {[res |-> OkRow(nodes), vec |-> nodes]}
    ELSE {[res |-> IF o.res.ok THEN OkRow(o.vec) ELSE o.res, vec |-> o.vec] :
            o \in prepare(nodes, bit_length(nodes[1].id))}

\* The boolean that in_subtree returns.
Returns(b) == [ans |-> b]

\* in_subtree that looks at the first element only.
in_subtree_run_first_only(row, root) ==
    LET root_length == bit_length(root)
    IN  IF row # <<>> /\ bit_length(row[1].id) <= root_length THEN Returns(FALSE)
        ELSE IF row # <<>> /\ IsPanic(prefix(row[1].id, root_length)) THEN Panic
        ELSE IF row # <<>> /\ prefix(row[1].id, root_length) # root THEN Returns(FALSE)
        ELSE Returns(row # <<>>)

\* in_subtree without the comparison of the lengths.
in_subtree_run_unguarded(row, root) ==
    LET root_length == bit_length(root)
    IN  IF row # <<>> /\ IsPanic(prefix(row[1].id, root_length)) THEN Panic
        ELSE IF row # <<>> /\ prefix(row[1].id, root_length) # root THEN Returns(FALSE)
        ELSE IF Len(row) = 1 THEN Returns(TRUE)
        ELSE IF row = <<>> THEN Returns(FALSE)
        ELSE IF IsPanic(prefix(row[Len(row)].id, root_length)) THEN Panic
        ELSE Returns(prefix(row[Len(row)].id, root_length) = root)

\* NodesRow::in_subtree(root), step by step: the boolean returned, or the
\* panic of a call of prefix with more bits than the element has.
in_subtree_run(row, root) ==
    LET root_length == bit_length(root)
    IN  IF row # <<>> /\ bit_length(row[1].id) <= root_length THEN Returns(FALSE)
        ELSE IF row # <<>> /\ IsPanic(prefix(row[1].id, root_length)) THEN Panic
        ELSE IF row # <<>> /\ prefix(row[1].id, root_length) # root THEN Returns(FALSE)
        ELSE IF Len(row) = 1 THEN Returns(TRUE)
        ELSE IF row = <<>> THEN Returns(FALSE)
        ELSE IF IsPanic(prefix(row[Len(row)].id, root_length)) THEN Panic
        ELSE Returns(prefix(row[Len(row)].id, root_length) = root)

\* NodesRow::in_subtree(root) where it returns
in_subtree(row, root) == in_subtree_run(row, root).ans

(***************************************************************************)
(* tile.rs: Tile, Tile::merge, merge                                       *)
(***************************************************************************)
\* merge_join that carries through only what the update side yields.
RECURSIVE merge_join_drops_left(_, _)
merge_join_drops_left(nodes, update) ==
    IF nodes = <<>> THEN update
    ELSE IF update = <<>> THEN nodes
    ELSE LET c == IdCmp(Head(nodes).id, Head(update).id)
         IN  IF c < 0 THEN merge_join_drops_left(Tail(nodes), update)
             ELSE IF c > 0 THEN <<Head(update)>> \o merge_join_drops_left(nodes, Tail(update))
             ELSE <<Head(update)>> \o merge_join_drops_left(Tail(nodes), Tail(update))

\* merge_join_by(..).map(..): walk both rows in step; on equal ids take the
\* update and advance both sides.
RECURSIVE merge_join(_, _)
merge_join(nodes, update) ==
    IF nodes = <<>> THEN update
    ELSE IF update = <<>> THEN nodes
    ELSE LET c == IdCmp(Head(nodes).id, Head(update).id)
         IN  IF c < 0 THEN <<Head(nodes)>> \o merge_join(Tail(nodes), update)
             ELSE IF c > 0 THEN <<Head(update)>> \o merge_join(nodes, Tail(update))
             ELSE <<Head(update)>> \o merge_join(Tail(nodes), Tail(update))

\* fn merge(nodes, update): the possible Results
merge(nodes, update) == {o.res : o \in try_new(merge_join(nodes, update))}

ErrTileDepth(got, want) ==
    [ok |-> FALSE, kind |-> "Updates are at depth", index |-> -1, got |-> got, want |-> want]

ErrNotInTile ==
    [ok |-> FALSE, kind |-> "Updates are not entirely in this tile",
     index |-> -1, got |-> -1, want |-> -1]

\* checked_merge with the subtree check made before the depth comparison.
checked_merge_subtree_first(self_id, self_leaves, updates) ==
    LET got == bit_length(updates[1].id)
        want == bit_length(self_leaves[1].id)
    IN  IF ~in_subtree(updates, self_id)
        THEN {[id |-> self_id, leaves |-> self_leaves, res |-> ErrNotInTile]}
        ELSE IF got # want
        THEN {[id |-> self_id, leaves |-> self_leaves, res |-> ErrTileDepth(got, want)]}
        ELSE {IF m.ok THEN [id |-> self_id, leaves |-> m.row, res |-> [ok |-> TRUE]]
                      ELSE [id |-> self_id, leaves |-> self_leaves, res |-> m] :
                m \in merge(self_leaves, updates)}

\* checked_merge with the subtree test the wrong way round.
checked_merge_inverted(self_id, self_leaves, updates) ==
    LET got == bit_length(updates[1].id)
        want == bit_length(self_leaves[1].id)
    IN  IF got # want
        THEN {[id |-> self_id, leaves |-> self_leaves, res |-> ErrTileDepth(got, want)]}
        ELSE IF in_subtree(updates, self_id)
        THEN {[id |-> self_id, leaves |-> self_leaves, res |-> ErrNotInTile]}
        ELSE {IF m.ok THEN [id |-> self_id, leaves |-> m.row, res |-> [ok |-> TRUE]]
                      ELSE [id |-> self_id, leaves |-> self_leaves, res |-> m] :
                m \in merge(self_leaves, updates)}

\* Tile::merge past its two early returns: the depth comparison, the
\* subtree check and the merge, on non-empty leaves and a non-empty update.
checked_merge(self_id, self_leaves, updates) ==
    LET got == bit_length(updates[1].id)
        want == bit_length(self_leaves[1].id)
    IN  IF got # want
        THEN {[id |-> self_id, leaves |-> self_leaves, res |-> ErrTileDepth(got, want)]}
        ELSE IF ~in_subtree(updates, self_id)
        THEN {[id |-> self_id, leaves |-> self_leaves, res |-> ErrNotInTile]}
        ELSE {IF m.ok THEN [id |-> self_id, leaves |-> m.row, res |-> [ok |-> TRUE]]
                      ELSE [id |-> self_id, leaves |-> self_leaves, res |-> m] :
                m \in merge(self_leaves, updates)}

\* Tile::merge without the depth comparison.
Tile_merge_no_depth(self_id, self_leaves, updates) ==
    IF updates = <<>>
    THEN {[id |-> self_id, leaves |-> self_leaves, res |-> [ok |-> TRUE]]}
    ELSE IF self_leaves = <<>>
    THEN {[id |-> self_id, leaves |-> updates, res |-> [ok |-> TRUE]]}
    ELSE IF ~in_subtree(updates, self_id)
    THEN {[id |-> self_id, leaves |-> self_leaves, res |-> ErrNotInTile]}
    ELSE {IF m.ok THEN [id |-> self_id, leaves |-> m.row, res |-> [ok |-> TRUE]]
                  ELSE [id |-> self_id, leaves |-> self_leaves, res |-> m] :
            m \in merge(self_leaves, updates)}

\* Tile::merge with the two early returns folded into one: an empty update
\* is taken as the leaves too.
Tile_merge_takes_empty(self_id, self_leaves, updates) ==
    IF updates = <<>> \/ self_leaves = <<>>
    THEN {[id |-> self_id, leaves |-> updates, res |-> [ok |-> TRUE]]}
    ELSE checked_merge(self_id, self_leaves, updates)

\* Tile::merge with the subtree check made before the adoption.
Tile_merge_checks_first(self_id, self_leaves, updates) ==
    IF updates = <<>>
    THEN {[id |-> self_id, leaves |-> self_leaves, res |-> [ok |-> TRUE]]}
    ELSE IF ~in_subtree(updates, self_id)
    THEN {[id |-> self_id, leaves |-> self_leaves, res |-> ErrNotInTile]}
    ELSE IF self_leaves = <<>>
    THEN {[id |-> self_id, leaves |-> updates, res |-> [ok |-> TRUE]]}
    ELSE checked_merge(self_id, self_leaves, updates)

\* Tile::merge with the adoption moving the tile to the update's subtree.
Tile_merge_moves_root(self_id, self_leaves, updates) ==
    IF updates = <<>>
    THEN {[id |-> self_id, leaves |-> self_leaves, res |-> [ok |-> TRUE]]}
    ELSE IF self_leaves = <<>>
    THEN {[id |-> prefix(updates[1].id, bit_length(updates[1].id) - 1),
           leaves |-> updates, res |-> [ok |-> TRUE]]}
    ELSE checked_merge(self_id, self_leaves, updates)

\* Tile::merge(&mut self, updates): the possible outcomes, each the tile
\* (id, leaves) after the call and the Result returned.
Tile_merge(self_id, self_leaves, updates) ==
    IF updates = <<>>
    THEN {[id |-> self_id, leaves |-> self_leaves, res |-> [ok |-> TRUE]]}
    ELSE IF self_leaves = <<>>
    THEN {[id |-> self_id, leaves |-> updates, res |-> [ok |-> TRUE]]}
    ELSE checked_merge(self_id, self_leaves, updates)

(***************************************************************************)
(* The values the callers draw from.                                       *)
(***************************************************************************)
\* TEST_IDS of tile.rs: two ids under the byte 0xAB, one under 0xAC.
TestIds == {<<171, 0>>, <<171, 16>>, <<172, 0>>}

\* Ids at depth 15 (test_node) and one id at depth 8 (wrong_depth).
AddrVals == {new_id(b, 15) : b \in TestIds} \cup {prefix(new_id(<<171, 0>>, 15), 8)}

HashVals == {"old", "new"}

NodeVals == {Node(a, h) : a \in AddrVals, h \in HashVals}

\* Tile ids: the 8-bit prefix [10101011] (test_id) and the 12-bit prefix
\* [10101011 0001].
RootVals == {prefix(new_id(<<171, 16>>, 15), 8), prefix(new_id(<<171, 16>>, 15), 12)}

\* Bytes of the buffers of the ID tests (TEST_BYTES 0x0A, 0x0B, 0xFA): two
\* that agree on their first 7 bits and one that starts with 1111.
ByteVals == {10, 11, 250}

\* Values of the separate last byte passed to ID::new_id_with_last.
LastVals == {0, 123, 250, 251}

None == [none |-> TRUE]

(***************************************************************************)
(* State: one tile and one caller that builds a row, merges it into the    *)
(* tile and looks at the result.                                           *)
(***************************************************************************)
VARIABLES
    id,       \* Tile.id
    leaves,   \* Tile.leaves (the vector inside the NodesRow)
    pc,       \* the caller: "idle", "built" (try_new returned), "merged"
    nodes,    \* the vector passed to NodesRow::try_new
    vec,      \* that vector as prepare left it
    built,    \* the Result of NodesRow::try_new
    was,      \* the tile's leaves when Tile::merge was called
    was_id,   \* the tile's id when Tile::merge was called
    result,   \* the Result of Tile::merge
    asked,    \* the last call of NodesRow::in_subtree: root and answer
    call,     \* the caller of the ID constructors and of ID::prefix
    pair,     \* the caller that builds two IDs and compares them
    twice,    \* the caller that merges two updates in both orders
    upload,   \* one request in accept_form
    hashing   \* one call of parallel_hash: caller, worker and channel

vars == <<id, leaves, pc, nodes, vec, built, was, was_id, result, asked, call, pair,
          twice, upload, hashing>>

\* the state outside the tile, the rows and the IDs
more_vars == <<twice, upload, hashing>>

\* no caller of the second tile, no request, no hashing call
NoMore == twice = None /\ upload = None /\ hashing = None

Init ==
    /\ id \in RootVals
    /\ leaves = <<>>
    /\ pc = "idle"
    /\ nodes = <<>>
    /\ vec = <<>>
    /\ built = None
    /\ was = <<>>
    /\ was_id = id
    /\ result = None
    /\ asked = None
    /\ call = None
    /\ pair = None
    /\ NoMore

\* The caller assembles a vector of at most max nodes and calls
\* NodesRow::try_new.
TryNewFrom(max) ==
    /\ pc = "idle"
    /\ \E k \in 0..max : \E n \in [1..k -> NodeVals] : \E o \in try_new(n) :
          /\ nodes' = n
          /\ vec' = o.vec
          /\ built' = o.res
    /\ pc' = "built"
    /\ UNCHANGED <<id, leaves, was, was_id, result, asked, call, pair, more_vars>>

TryNew == TryNewFrom(MaxLen)

TryNewRow == TryNewFrom(MaxRow)

\* The caller passes the row it built to Tile::merge.
Merge ==
    /\ pc = "built"
    /\ built.ok
    /\ \E o \in Tile_merge(id, leaves, built.row) :
          /\ id' = o.id
          /\ leaves' = o.leaves
          /\ result' = o.res
    /\ was' = leaves
    /\ was_id' = id
    /\ pc' = "merged"
    /\ UNCHANGED <<nodes, vec, built, asked, call, pair, more_vars>>

\* The caller has looked at the Result of try_new or of Tile::merge and
\* drops it.
Done ==
    /\ pc \in {"built", "asked", "merged"}
    /\ pc' = "idle"
    /\ nodes' = <<>>
    /\ vec' = <<>>
    /\ built' = None
    /\ was' = <<>>
    /\ was_id' = id
    /\ result' = None
    /\ asked' = None
    /\ UNCHANGED <<id, leaves, call, pair, more_vars>>

Next == TryNew \/ Merge \/ Done

Spec == Init /\ [][Next]_vars

\* The roots a caller asks NodesRow::in_subtree about: every prefix of
\* every id in use, the empty one and the ids themselves included.
SubtreeRoots == {prefix(a, n) : a \in AddrVals, n \in 0..15} \ {Panic}

\* The caller asks whether the row it built lies under a root.
InSubtree ==
    /\ pc = "built"
    /\ built.ok
    /\ \E r \in SubtreeRoots :
          LET run == in_subtree_run(built.row, r)
          IN  asked' = IF IsPanic(run) THEN [root |-> r, panic |-> TRUE]
                       ELSE [root |-> r, ans |-> run.ans]
    /\ pc' = "asked"
    /\ UNCHANGED <<id, leaves, nodes, vec, built, was, was_id, result, call, pair, more_vars>>

\* Only rows are built and asked about, none is merged.
NextRow == TryNewRow \/ InSubtree \/ Done

SpecRow == Init /\ [][NextRow]_vars

(***************************************************************************)
(* State of the ID callers: no tile is in use.                             *)
(***************************************************************************)
NoTile ==
    /\ id = default
    /\ leaves = <<>>
    /\ pc = "off"
    /\ nodes = <<>>
    /\ vec = <<>>
    /\ built = None
    /\ was = <<>>
    /\ was_id = default
    /\ result = None
    /\ asked = None

tile_vars == <<id, leaves, pc, nodes, vec, built, was, was_id, result, asked>>

\* One caller makes an ID with one of the constructors and then takes
\* prefixes of it, each of the one before.
InitId ==
    /\ NoTile
    /\ call = [pc |-> "start"]
    /\ pair = None
    /\ NoMore

Made(op, path, last, bits, out) ==
    [pc |-> "made", op |-> op, path |-> path, last |-> last, bits |-> bits,
     recv |-> None, n |-> 0, out |-> out]

\* ID::new_id(path, bits) on a buffer of at most MaxBytes bytes, with bit
\* counts up to one more than the longest buffer holds.
NewId ==
    /\ call.pc = "start"
    /\ \E len \in 0..MaxBytes : \E b \in [1..len -> ByteVals] :
          \E k \in 0..(8 * MaxBytes + 1) :
             call' = Made("new_id", b, 0, k, new_id(b, k))
    /\ UNCHANGED <<tile_vars, pair, more_vars>>

\* ID::new_id_with_last(path, last, bits), with bits from 0 to 9.
NewIdWithLast ==
    /\ call.pc = "start"
    /\ \E len \in 0..(MaxBytes - 1) : \E b \in [1..len -> ByteVals] :
          \E l \in LastVals : \E k \in 0..9 :
             call' = Made("new_id_with_last", b, l, k, new_id_with_last(b, l, k))
    /\ UNCHANGED <<tile_vars, pair, more_vars>>

\* ID::default()
Default ==
    /\ call.pc = "start"
    /\ call' = Made("default", <<>>, 0, 0, default)
    /\ UNCHANGED <<tile_vars, pair, more_vars>>

\* ID::prefix(n) of the ID the caller holds, with n up to one more than
\* its bit length.
Prefix ==
    /\ call.pc \in {"made", "prefixed"}
    /\ ~IsPanic(call.out)
    /\ \E m \in 0..(bit_length(call.out) + 1) :
          call' = [call EXCEPT !.pc = "prefixed", !.recv = call.out, !.n = m,
                               !.out = prefix(call.out, m)]
    /\ UNCHANGED <<tile_vars, pair, more_vars>>

\* id.to_string() on the ID the caller holds
to_string ==
    /\ call.pc \in {"made", "prefixed"}
    /\ ~IsPanic(call.out)
    /\ call' = [pc |-> "shown", op |-> call.op, path |-> call.path, last |-> call.last,
                 bits |-> call.bits, recv |-> call.recv, n |-> call.n,
                 out |-> call.out, text |-> Display(call.out)]
    /\ UNCHANGED <<tile_vars, pair, more_vars>>

NextId == NewId \/ NewIdWithLast \/ Default \/ Prefix \/ to_string

SpecId == InitId /\ [][NextId]_vars

\* One caller makes two IDs with ID::new_id, each from its own buffer and
\* bit count (no more bits than the buffer holds), compares them, and, when
\* they have the same depth, builds a row of them and of a third ID of that
\* depth.
InitPair ==
    /\ NoTile
    /\ call = None
    /\ NoMore
    /\ pair = [pc |-> "start", b1 |-> <<>>, k1 |-> 0, x |-> None,
                b2 |-> <<>>, k2 |-> 0, y |-> None, z |-> None, row |-> None]

NewIdX ==
    /\ pair.pc = "start"
    /\ \E len \in 0..MaxBytes : \E b \in [1..len -> ByteVals] : \E k \in 0..(8 * len) :
          pair' = [pair EXCEPT !.pc = "x", !.b1 = b, !.k1 = k, !.x = new_id(b, k)]
    /\ UNCHANGED <<tile_vars, call, more_vars>>

NewIdY ==
    /\ pair.pc = "x"
    /\ \E len \in 0..MaxBytes : \E b \in [1..len -> ByteVals] : \E k \in 0..(8 * len) :
          pair' = [pair EXCEPT !.pc = "xy", !.b2 = b, !.k2 = k, !.y = new_id(b, k)]
    /\ UNCHANGED <<tile_vars, call, more_vars>>

\* NodesRow::try_new on the vector [y, z, x], where z is made with
\* ID::new_id from x's buffer with one byte replaced.
SortThree ==
    /\ pair.pc = "xy"
    /\ pair.k1 = pair.k2
    /\ \E i \in 1..Len(pair.b1) : \E v \in ByteVals :
          LET z == new_id([pair.b1 EXCEPT ![i] = v], pair.k1)
          IN  \E o \in try_new(<<Node(pair.y, "old"), Node(z, "old"), Node(pair.x, "old")>>) :
                 pair' = [pair EXCEPT !.pc = "row", !.z = z, !.row = o.res]
    /\ UNCHANGED <<tile_vars, call, more_vars>>

NextPair == NewIdX \/ NewIdY \/ SortThree

SpecPair == InitPair /\ [][NextPair]_vars

\* One caller holds two tiles with the same id and the same non-empty
\* leaves (a row that try_new returned), builds two non-empty updates and
\* merges them into the first tile in one order and into the second tile
\* in the other.  The first tile is (id, leaves); twice.b holds the leaves
\* of the second.
InitTwice ==
    /\ id \in RootVals
    /\ \E k \in 1..MaxLen : \E n \in [1..k -> NodeVals] : \E o \in try_new(n) :
          /\ o.res.ok
          /\ leaves = o.res.row
          /\ twice = [pc |-> "start", l0 |-> o.res.row, b |-> o.res.row,
                       u1 |-> <<>>, u2 |-> <<>>,
                       ra1 |-> None, ra2 |-> None, rb1 |-> None, rb2 |-> None]
    /\ pc = "off"
    /\ nodes = <<>>
    /\ vec = <<>>
    /\ built = None
    /\ was = <<>>
    /\ was_id = id
    /\ result = None
    /\ asked = None
    /\ call = None
    /\ pair = None
    /\ upload = None
    /\ hashing = None

\* what the merges of the two tiles leave alone
twice_rest == <<id, pc, nodes, vec, built, was, was_id, result, asked, call, pair,
                upload, hashing>>

\* NodesRow::try_new for the first update
TryNewU1 ==
    /\ twice.pc = "start"
    /\ \E k \in 1..MaxLen : \E n \in [1..k -> NodeVals] : \E o \in try_new(n) :
          /\ o.res.ok
          /\ twice' = [twice EXCEPT !.pc = "u1", !.u1 = o.res.row]
    /\ UNCHANGED <<leaves, twice_rest>>

\* NodesRow::try_new for the second update
TryNewU2 ==
    /\ twice.pc = "u1"
    /\ \E k \in 1..MaxLen : \E n \in [1..k -> NodeVals] : \E o \in try_new(n) :
          /\ o.res.ok
          /\ twice' = [twice EXCEPT !.pc = "u2", !.u2 = o.res.row]
    /\ UNCHANGED <<leaves, twice_rest>>

\* first tile: merge(u1)
MergeA1 ==
    /\ twice.pc = "u2"
    /\ \E o \in Tile_merge(id, leaves, twice.u1) :
          /\ leaves' = o.leaves
          /\ twice' = [twice EXCEPT !.pc = "a1", !.ra1 = o.res]
    /\ UNCHANGED twice_rest

\* first tile: merge(u2)
MergeA2 ==
    /\ twice.pc = "a1"
    /\ \E o \in Tile_merge(id, leaves, twice.u2) :
          /\ leaves' = o.leaves
          /\ twice' = [twice EXCEPT !.pc = "a2", !.ra2 = o.res]
    /\ UNCHANGED twice_rest

\* second tile: merge(u2)
MergeB1 ==
    /\ twice.pc = "a2"
    /\ \E o \in Tile_merge(id, twice.b, twice.u2) :
          twice' = [twice EXCEPT !.pc = "b1", !.b = o.leaves, !.rb1 = o.res]
    /\ UNCHANGED <<leaves, twice_rest>>

\* second tile: merge(u1)
MergeB2 ==
    /\ twice.pc = "b1"
    /\ \E o \in Tile_merge(id, twice.b, twice.u1) :
          twice' = [twice EXCEPT !.pc = "b2", !.b = o.leaves, !.rb2 = o.res]
    /\ UNCHANGED <<leaves, twice_rest>>

NextTwice == TryNewU1 \/ TryNewU2 \/ MergeA1 \/ MergeA2 \/ MergeB1 \/ MergeB2

SpecTwice == InitTwice /\ [][NextTwice]_vars

(***************************************************************************)
(* server/mod.rs: parallel_hash                                            *)
(***************************************************************************)
\* The buffers handed to parallel_hash, by what hash_image finds in them.
BufferVals == {"png", "jpeg", "gif", "text", "broken png"}

\* hash_image(&buffer): Ok(VeracityHash) for a PNG or JPEG that decodes,
\* Err otherwise.
hash_image(buffer) ==
    IF buffer \in {"png", "jpeg"} THEN [ok |-> TRUE, hash |-> buffer]
    ELSE IF buffer = "broken png" THEN [ok |-> FALSE, err |-> "decode"]
    ELSE [ok |-> FALSE, err |-> "unsupported"]

\* The closure given to rayon::spawn, after hash_image has returned:
\* the messages it passes to send.send, here without one for an error.
worker_sends_ok_only(res) == IF res.ok THEN <<res>> ELSE <<>>

\* The closure given to rayon::spawn, after hash_image has returned: the
\* messages it passes to send.send (Ok(veracity) or Err(err)).
worker_sends(res) == <<res>>

\* parallel_hash up to recv.await: one oneshot channel (chan holds the
\* value sent and not yet received; tx and rx are its two ends), one
\* worker spawned, the caller awaiting.
parallel_hash(buffer) ==
    [buffer |-> buffer, channels |-> 1, spawned |-> 1,
     worker |-> "queued", res |-> None, sends |-> 0,
     chan |-> <<>>, tx |-> "held", rx |-> "held",
     caller |-> "awaiting", got |-> None, received |-> 0]

Calls == 1..Len(hashing)

InitHash ==
    /\ NoTile
    /\ call = None
    /\ pair = None
    /\ twice = None
    /\ upload = None
    /\ hashing = <<>>

hash_rest == <<tile_vars, call, pair, twice, upload>>

\* a caller calls parallel_hash(buffer)
ParallelHash ==
    /\ Len(hashing) < MaxCalls
    /\ \E b \in BufferVals : hashing' = Append(hashing, parallel_hash(b))
    /\ UNCHANGED hash_rest

\* the worker runs hash_image, which returns
HashImage(i) ==
    /\ i \in Calls
    /\ hashing[i].worker = "queued"
    /\ hashing' = [hashing EXCEPT ![i].worker = "hashed",
                                   ![i].res = hash_image(hashing[i].buffer)]
    /\ UNCHANGED hash_rest

\* the worker panics inside hash_image: the closure ends and the sender
\* it owns is dropped
WorkerPanics(i) ==
    /\ i \in Calls
    /\ hashing[i].worker = "queued"
    /\ hashing' = [hashing EXCEPT ![i].worker = "panicked", ![i].tx = "dropped"]
    /\ UNCHANGED hash_rest

\* the worker passes what it has to send.send and ends; send.send stores
\* the value unless the receiver was dropped, and its result is ignored;
\* a sender that was not used is dropped at the end of the closure
WorkerSends(i) ==
    /\ i \in Calls
    /\ hashing[i].worker = "hashed"
    /\ LET msgs == worker_sends(hashing[i].res)
       IN  hashing' = [hashing EXCEPT
              ![i].worker = "done",
              ![i].sends = Len(msgs),
              ![i].chan = IF msgs # <<>> /\ hashing[i].rx = "held" THEN <<msgs[1]>> ELSE <<>>,
              ![i].tx = IF msgs # <<>> THEN "used" ELSE "dropped"]
    /\ UNCHANGED hash_rest

\* recv.await completes: with the value sent, or with the error of a
\* channel closed without a value, on which expect panics
Recv(i) ==
    /\ i \in Calls
    /\ hashing[i].caller = "awaiting"
    /\ \/ /\ hashing[i].chan # <<>>
          /\ hashing' = [hashing EXCEPT ![i].caller = "returned",
                                         ![i].got = hashing[i].chan[1],
                                         ![i].received = hashing[i].received + 1,
                                         ![i].chan = <<>>]
       \/ /\ hashing[i].chan = <<>>
          /\ hashing[i].tx = "dropped"
          /\ hashing' = [hashing EXCEPT ![i].caller = "panicked"]
    /\ UNCHANGED hash_rest

\* the future of the caller is dropped while it awaits (the request was
\* abandoned): the receiver is dropped with it
CallerDropped(i) ==
    /\ i \in Calls
    /\ hashing[i].caller = "awaiting"
    /\ hashing' = [hashing EXCEPT ![i].caller = "dropped", ![i].rx = "dropped",
                                   ![i].chan = <<>>]
    /\ UNCHANGED hash_rest

NextHash ==
    \/ ParallelHash
    \/ \E i \in 1..MaxCalls :
          HashImage(i) \/ WorkerPanics(i) \/ WorkerSends(i) \/ Recv(i) \/ CallerDropped(i)

\* rayon runs every job it was given and tokio polls a task whose channel
\* has become ready.
FairHash ==
    \A i \in 1..MaxCalls :
        /\ WF_vars(HashImage(i) \/ WorkerPanics(i))
        /\ WF_vars(WorkerSends(i))
        /\ WF_vars(Recv(i))

SpecHash == InitHash /\ [][NextHash]_vars /\ FairHash

(***************************************************************************)
(* server/mod.rs: stream_to_file; server/routes.rs: accept_form            *)
(***************************************************************************)
\* path_is_valid(path), the path given by its components: exactly one
\* component, and a normal one.
path_is_valid(path) == Len(path) = 1 /\ path[1] \notin {"..", ".", "/"}

\* The fields of a multipart request: a text field without a file name
\* (named: field.file_name() is Some), image files, and a file whose name
\* is not a plain file name.
FieldVals ==
    {[named |-> FALSE, file_name |-> <<>>, data |-> "text"]}
        \cup {[named |-> TRUE, file_name |-> <<"image">>, data |-> b] : b \in BufferVals}
        \cup {[named |-> TRUE, file_name |-> <<"..", "image">>, data |-> "png"]}

\* stream_to_file(path, stream): the Results it can return: the error of
\* an invalid path, the error of reading the stream, or what the hashing
\* of the buffer returns.
stream_to_file(path, data) ==
    IF ~path_is_valid(path) THEN {[ok |-> FALSE, err |-> "Invalid path"]}
    ELSE {[ok |-> FALSE, err |-> "read"], hash_image(data)}

\* the handler goes on with the step at
GoOn(step) == [pc |-> step, status |-> 0]

\* the handler returns the response with the status
Respond(status) == [pc |-> "done", status |-> status]

\* accept_form with the INSERT made before the leaf is queued.
accept_form_insert_first(step, ok, duplicate) ==
    IF step = "stream_to_file" THEN (IF ok THEN GoOn("pool.get") ELSE Respond(400))
    ELSE IF step = "pool.get" THEN (IF ok THEN GoOn("INSERT") ELSE Respond(503))
    ELSE IF step = "INSERT"
         THEN (IF ok THEN GoOn("add_hash_to_tree")
               ELSE IF duplicate THEN Respond(409) ELSE Respond(503))
    ELSE (IF ok THEN Respond(201) ELSE Respond(503))

\* accept_form answering a failed submission to the log like a success.
accept_form_ignores_log(step, ok, duplicate) ==
    IF step = "stream_to_file" THEN (IF ok THEN GoOn("add_hash_to_tree") ELSE Respond(400))
    ELSE IF step = "add_hash_to_tree" THEN GoOn("pool.get")
    ELSE IF step = "pool.get" THEN (IF ok THEN GoOn("INSERT") ELSE Respond(503))
    ELSE (IF ok THEN Respond(201)
          ELSE IF duplicate THEN Respond(409) ELSE Respond(503))

\* accept_form, the body of the loop for a field with a file name: what
\* follows each awaited step, by its outcome (duplicate: the text of the
\* INSERT's error contains "duplicate").
accept_form(step, ok, duplicate) ==
    IF step = "stream_to_file" THEN (IF ok THEN GoOn("add_hash_to_tree") ELSE Respond(400))
    ELSE IF step = "add_hash_to_tree" THEN (IF ok THEN GoOn("pool.get") ELSE Respond(503))
    ELSE IF step = "pool.get" THEN (IF ok THEN GoOn("INSERT") ELSE Respond(503))
    ELSE (IF ok THEN Respond(201)
          ELSE IF duplicate THEN Respond(409) ELSE Respond(503))

InitUpload ==
    /\ NoTile
    /\ call = None
    /\ pair = None
    /\ twice = None
    /\ hashing = None
    /\ upload = [pc |-> "idle"]

upload_rest == <<tile_vars, call, pair, twice, hashing>>

\* a request arrives with its multipart fields
Request ==
    /\ upload.pc = "idle"
    /\ \E k \in 0..MaxFields : \E f \in [1..k -> FieldVals] :
          upload' = [pc |-> "next_field", fields |-> f,
                     field |-> [named |-> FALSE, file_name |-> <<>>, data |-> ""],
                     log |-> <<>>, status |-> 0]
    /\ UNCHANGED upload_rest

\* multipart.next_field().await: an error of the stream, the end of the
\* fields, a field without a file name (continue), or a field with one
NextField ==
    /\ upload.pc = "next_field"
    /\ \/ upload' = [upload EXCEPT !.pc = "done", !.status = 400]
       \/ /\ upload.fields = <<>>
          /\ upload' = [upload EXCEPT !.pc = "done", !.status = 400]
       \/ /\ upload.fields # <<>>
          /\ upload' = [upload EXCEPT
                !.fields = Tail(upload.fields),
                !.field = Head(upload.fields),
                !.pc = IF Head(upload.fields).named
                       THEN "stream_to_file" ELSE "next_field"]
    /\ UNCHANGED upload_rest

\* one awaited step of the loop body has ended with ok or not
Step(step, ok, duplicate) ==
    LET then == accept_form(step, ok, duplicate)
    IN  upload' = [upload EXCEPT !.pc = then.pc, !.status = then.status,
                                 !.log = Append(upload.log, [step |-> step, ok |-> ok])]

\* server::stream_to_file(&file_name, field).await
StreamToFile ==
    /\ upload.pc = "stream_to_file"
    /\ \E r \in stream_to_file(upload.field.file_name, upload.field.data) :
          Step("stream_to_file", r.ok, FALSE)
    /\ UNCHANGED upload_rest

\* add_hash_to_tree(..).await: the leaf is queued in the log or not
AddHashToTree ==
    /\ upload.pc = "add_hash_to_tree"
    /\ \E ok \in BOOLEAN : Step("add_hash_to_tree", ok, FALSE)
    /\ UNCHANGED upload_rest

\* pool.get().await
PoolGet ==
    /\ upload.pc = "pool.get"
    /\ \E ok \in BOOLEAN : Step("pool.get", ok, FALSE)
    /\ UNCHANGED upload_rest

\* conn.query("INSERT INTO images ..").await
Insert ==
    /\ upload.pc = "INSERT"
    /\ \E ok \in BOOLEAN : \E duplicate \in BOOLEAN :
          (ok => ~duplicate) /\ Step("INSERT", ok, duplicate)
    /\ UNCHANGED upload_rest

NextUpload == Request \/ NextField \/ StreamToFile \/ AddHashToTree \/ PoolGet \/ Insert

SpecUpload == InitUpload /\ [][NextUpload]_vars

(***************************************************************************)
(* Vocabulary of the properties: an ID read as the bit string it stands    *)
(* for, independently of prefix, bit_length and the derived ordering.      *)
(***************************************************************************)
\* The n most significant bits of the byte b (the weights of a byte's bits,
\* most significant first, are 128, 64, ..., 1).
ByteBits(b, n) == [i \in 1..n |-> (b \div <<128, 64, 32, 16, 8, 4, 2, 1>>[i]) % 2]

RECURSIVE PathBits(_)
PathBits(path) ==
    IF path = <<>> THEN <<>> ELSE ByteBits(Head(path), 8) \o PathBits(Tail(path))

BitString(a) == PathBits(a.path) \o ByteBits(a.last, a.bits)

Depth(a) == Len(BitString(a))

\* a lies strictly under r: a is longer than r and starts with r.
StrictlyUnder(a, r) ==
    /\ Depth(a) > Depth(r)
    /\ SubSeq(BitString(a), 1, Depth(r)) = BitString(r)

\* Lexicographic order of bit strings (a proper prefix comes first).
RECURSIVE LexLeq(_, _)
LexLeq(x, y) ==
    IF x = <<>> THEN TRUE
    ELSE IF y = <<>> THEN FALSE
    ELSE IF Head(x) # Head(y) THEN Head(x) < Head(y)
    ELSE LexLeq(Tail(x), Tail(y))

Elems(row) == {row[i] : i \in 1..Len(row)}

Addrs(row) == {row[i].id : i \in 1..Len(row)}

UniqueAddrs(row) == \A i, j \in 1..Len(row) : i # j => row[i].id # row[j].id

UniformDepth(row) == \A i \in 1..Len(row) : Depth(row[i].id) = Depth(row[1].id)

SortedByBits(row) ==
    \A i \in 1..(Len(row) - 1) : LexLeq(BitString(row[i].id), BitString(row[i + 1].id))

\* try_new has returned Ok(row)
Built == pc \in {"built", "merged"} /\ built.ok

\* Tile::merge has returned
Merged == pc = "merged"

\* the row that was passed to Tile::merge
Updates == built.row

(***************************************************************************)
(* Properties                                                              *)
(***************************************************************************)
\* C1: tile containment. After any sequence of Tile::merge calls on a tile
\* that started with empty leaves, every leaf is longer than the tile's id
\* and has the tile's id as its prefix.
C1_Containment == \A i \in 1..Len(leaves) : StrictlyUnder(leaves[i].id, id)

\* C2: address uniqueness. No two nodes of a row returned by
\* NodesRow::try_new, and no two leaves after a successful Tile::merge,
\* have the same id; one id given with two hashes collapses to one node.
C2_AddressUnique ==
    /\ Built => UniqueAddrs(built.row)
    /\ (Merged /\ result.ok) => UniqueAddrs(leaves)

\* C3: depth and order. Every row returned by NodesRow::try_new, and the
\* leaves after every successful Tile::merge, have one common bit length
\* and are in non-decreasing order of their bit strings.
C3_DepthAndOrder ==
    /\ (pc = "built" /\ built.ok) => UniformDepth(built.row) /\ SortedByBits(built.row)
    /\ (Merged /\ result.ok) => UniformDepth(leaves) /\ SortedByBits(leaves)

\* C3 witness: a row built from an unsorted vector was merged into
\* non-empty leaves and added a leaf.
C3_Witness ==
    /\ Merged /\ result.ok
    /\ was # <<>>
    /\ Len(nodes) >= 2 /\ ~SortedByBits(nodes)
    /\ Len(leaves) > Len(was)

\* C4: merge result with update precedence. After a successful merge of a
\* non-empty update U into non-empty leaves L, the ids of the leaves are
\* those of L and U together, every leaf at an id of U is a node of U, and
\* the leaves at the other ids are exactly the nodes L had there.
C4_MergePrecedence ==
    (Merged /\ result.ok /\ was # <<>> /\ Updates # <<>>) =>
        /\ Addrs(leaves) = Addrs(was) \cup Addrs(Updates)
        /\ \A n \in Elems(leaves) : n.id \in Addrs(Updates) => n \in Elems(Updates)
        /\ \A n \in Elems(leaves) : n.id \notin Addrs(Updates) => n \in Elems(was)
        /\ \A n \in Elems(was) : n.id \notin Addrs(Updates) => n \in Elems(leaves)

\* C5: out-of-subtree rejection. For every tile, a non-empty update with
\* an id that is not strictly under the tile's id is answered with
\* "Updates are not entirely in this tile" and the leaves stay as they were.
C5_OutOfSubtreeRejected ==
    (Merged /\ Updates # <<>>
        /\ \E i \in 1..Len(Updates) : ~StrictlyUnder(Updates[i].id, was_id)) =>
        /\ result = ErrNotInTile
        /\ leaves = was

\* C6: wrong-depth rejection. On non-empty leaves at depth d, a non-empty
\* update at another depth is answered with the depth error that carries
\* the update's depth and the tile's depth, and the leaves stay as they were.
C6_WrongDepthRejected ==
    (Merged /\ was # <<>> /\ Updates # <<>>
        /\ \E i \in 1..Len(Updates) : Depth(Updates[i].id) # Depth(was[1].id)) =>
        /\ ~result.ok
        /\ result.kind = "Updates are at depth"
        /\ result.got = Depth(Updates[1].id)
        /\ result.want = Depth(was[1].id)
        /\ leaves = was

\* C6 witness: an update that lies wholly under the tile's id was refused
\* for its depth alone.
C6_Witness ==
    /\ Merged /\ was # <<>> /\ Updates # <<>>
    /\ ~result.ok /\ result.got # result.want
    /\ \A i \in 1..Len(Updates) : StrictlyUnder(Updates[i].id, id)
    /\ leaves = was

\* C7: an empty update is a no-op. Tile::merge of an empty row returns Ok
\* and changes neither id nor leaves, on empty and on non-empty leaves, and
\* doing it again from the resulting tile gives the same tile.
C7_EmptyUpdateNoOp ==
    /\ (Merged /\ Updates = <<>>) => (result.ok /\ leaves = was /\ id = was_id)
    /\ \A o1 \in Tile_merge(id, leaves, <<>>) :
          /\ o1.res.ok /\ o1.id = id /\ o1.leaves = leaves
          /\ \A o2 \in Tile_merge(o1.id, o1.leaves, <<>>) :
                o2.res.ok /\ o2.id = id /\ o2.leaves = leaves

\* C7 witness: an empty row was merged into non-empty leaves.
C7_Witness == Merged /\ Updates = <<>> /\ was # <<>> /\ leaves = was /\ result.ok

\* C8: adoption by an empty tile. With empty leaves, a non-empty update
\* becomes the leaves as it is (same nodes, same order) and the call returns
\* Ok, whatever the update's depth and whether or not it is under the id.
C8_EmptyTileAdopts ==
    (Merged /\ was = <<>> /\ Updates # <<>>) => (result.ok /\ leaves = Updates)

\* C8 witness: an empty tile took an update with an id outside its subtree.
C8_Witness ==
    /\ Merged /\ was = <<>> /\ Updates # <<>>
    /\ \E i \in 1..Len(Updates) : ~StrictlyUnder(Updates[i].id, id)
    /\ leaves = Updates

\* C9: the root is frozen. Tile::merge leaves the tile's id as it was on
\* every path: no-op, adoption, merge, depth error, out-of-subtree error.
C9_RootFrozen == Merged => id = was_id

\* C9 witness: a merge into non-empty leaves that changed the leaves.
C9_Witness == Merged /\ result.ok /\ was # <<>> /\ leaves # was

\* C10: depth validation of NodesRow::try_new. For a non-empty vector the
\* wanted depth is that of element 0; if some element has another depth
\* the call returns the error with the smallest such index, that element's
\* depth and the wanted depth, returns no row, and the vector is left as it
\* was passed (not sorted, not de-duplicated); otherwise the call succeeds.
C10_DepthValidation ==
    (pc = "built" /\ nodes # <<>>) =>
        LET want == Depth(nodes[1].id)
            bad == {i \in 1..Len(nodes) : Depth(nodes[i].id) # want}
        IN  IF bad = {} THEN built.ok
            ELSE LET m == CHOOSE i \in bad : \A j \in bad : i <= j
                 IN  /\ ~built.ok
                     /\ "row" \notin DOMAIN built
                     /\ built.kind = "invalid depth"
                     /\ built.index = m - 1
                     /\ built.got = Depth(nodes[m].id)
                     /\ built.want = want
                     /\ vec = nodes

\* C10 witness: a vector of three nodes, out of order, whose elements 1 and
\* 2 both have the wrong depth; the error names index 1.
C10_Witness ==
    /\ pc = "built" /\ Len(nodes) = 3
    /\ ~built.ok /\ built.index = 1
    /\ Depth(nodes[3].id) # built.want
    /\ ~SortedByBits(nodes)
    /\ vec = nodes

(***************************************************************************)
(* Properties of the ID operations                                         *)
(***************************************************************************)
\* the first k bits of a byte buffer
BufBits(b, k) == SubSeq(PathBits(b), 1, k)

\* ID::new_id has returned, called within its precondition
MadeByNewId == call.pc = "made" /\ call.op = "new_id" /\ call.bits <= 8 * Len(call.path)

\* ID::prefix has returned, called within its precondition
Prefixed == call.pc = "prefixed" /\ call.n <= bit_length(call.recv)

\* C11: bit-length of a constructed address. For every buffer B and every
\* k with 0 <= k <= 8*len(B), new_id(B, k).bit_length() = k; the bit length
\* (8 * full bytes stored + bits of the partial byte) is the number of bits
\* the address holds, and it is 0 only for the empty address.
C11_BitLength ==
    MadeByNewId =>
        /\ bit_length(call.out) = call.bits
        /\ Len(BitString(call.out)) = call.bits
        /\ (bit_length(call.out) = 0 => call.out = default)

\* C11 witness: thirteen bits taken out of a buffer of two bytes.
C11_Witness ==
    /\ MadeByNewId /\ call.bits = 13 /\ Len(call.path) = 2
    /\ bit_length(call.out) = 13 /\ call.out.bits = 5

\* C12: prefix length and identity. For every address A and every k with
\* 0 <= k <= A.bit_length(): A.prefix(k).bit_length() = k, A.prefix of
\* A.bit_length() equals A field by field, and A.prefix(0) is the empty
\* address.
C12_PrefixLength ==
    Prefixed =>
        /\ bit_length(call.out) = call.n
        /\ (call.n = bit_length(call.recv) => call.out = call.recv)
        /\ (call.n = 0 => call.out = default)

\* C12 witness: a prefix that ends inside the full byte of an address of
\* one full byte and a partial one.
C12_Witness ==
    /\ Prefixed /\ Len(call.recv.path) = 1 /\ call.recv.bits \in 1..7
    /\ call.n \in 1..7 /\ bit_length(call.out) = call.n
    /\ call.out.path = <<>>

\* C13: prefix content. For every buffer B, every n <= 8*len(B) and every
\* k <= n, new_id(B, n).prefix(k) = new_id(B, k): the prefix is the address
\* made of the first k bits, also along a chain of prefixes.
C13_PrefixContent ==
    (Prefixed /\ call.op = "new_id") =>
        /\ call.out = new_id(call.path, call.n)
        /\ BitString(call.out) = BufBits(call.path, call.n)

\* C13 witness: the prefix is taken of new_id(B, n) itself, n ends inside
\* the partial byte, and k ends inside a full byte whose cut-off bits are
\* not all zero.
C13_Witness ==
    /\ Prefixed /\ call.op = "new_id"
    /\ call.recv = new_id(call.path, call.bits)
    /\ Len(call.recv.path) = 1 /\ call.recv.bits < 8
    /\ call.n \in 1..7
    /\ call.out.last # call.recv.path[1]
    /\ call.out = new_id(call.path, call.n)

\* two IDs have been made with ID::new_id
Paired == pair.pc = "xy"

\* C14: canonical equality. new_id(B1, k1) = new_id(B2, k2) if and only
\* if k1 = k2 and the first k1 bits of B1 are the first k1 bits of B2; the
\* bits of the buffers beyond k do not matter.
C14_CanonicalEquality ==
    Paired =>
        ((pair.x = pair.y) <=>
            (pair.k1 = pair.k2 /\ BufBits(pair.b1, pair.k1) = BufBits(pair.b2, pair.k1)))

\* C14 witness: equal IDs from buffers of different lengths that differ
\* in the bits after the k-th, k ending inside a byte.
C14_Witness ==
    /\ Paired /\ pair.x = pair.y
    /\ pair.k1 = 7
    /\ Len(pair.b1) # Len(pair.b2)
    /\ pair.b1[1] # pair.b2[1]

\* the encoding invariant of an ID
Canonical(a) ==
    /\ a.bits \in 1..8 \/ (a.bits = 0 /\ a.path = <<>> /\ a.last = 0)
    /\ a.last % Pow2(8 - a.bits) = 0

\* C15: canonical-encoding invariant. Every ID returned by new_id,
\* new_id_with_last, default or a chain of prefix calls has bits in 1..8,
\* or bits = 0 with an empty path and last = 0; and the low (8 - bits) bits
\* of its last byte are zero.
C15_CanonicalEncoding ==
    (call.pc \in {"made", "prefixed"} /\ ~IsPanic(call.out)) => Canonical(call.out)

\* C15 witness: a prefix of an ID made by new_id_with_last from a last
\* byte with low bits set; the prefix keeps three bits of that byte.
C15_Witness ==
    /\ call.pc = "prefixed" /\ call.op = "new_id_with_last"
    /\ call.last = 251
    /\ ~IsPanic(call.out)
    /\ call.out.path # <<>> /\ call.out.bits = 3 /\ call.out.last = 224

\* Lexicographic comparison of bit strings, a proper prefix first:
\* -1 (less), 0 (equal), 1 (greater).
BitCmp(x, y) == IF x = y THEN 0 ELSE IF LexLeq(x, y) THEN -1 ELSE 1

\* IDs of 0, 4, 8, 12 and 16 bits that the two IDs are compared through.
ThirdIds == {new_id(<<v, 11>>, k) : v \in {10, 250}, k \in {0, 4, 8, 12, 16}}

\* The order on IDs is total on x, y and the third IDs: antisymmetric,
\* equal exactly on equal IDs, and transitive.
TotalOrderOn(x, y) ==
    /\ IdCmp(x, y) = 0 - IdCmp(y, x)
    /\ (IdCmp(x, y) = 0 <=> x = y)
    /\ \A z \in ThirdIds :
          /\ (IdCmp(x, y) <= 0 /\ IdCmp(y, z) <= 0) => IdCmp(x, z) <= 0
          /\ (IdCmp(x, z) <= 0 /\ IdCmp(z, y) <= 0) => IdCmp(x, y) <= 0
          /\ (IdCmp(z, x) <= 0 /\ IdCmp(x, y) <= 0) => IdCmp(z, y) <= 0

RECURSIVE CommonLen(_, _)
CommonLen(x, y) ==
    IF x = <<>> \/ y = <<>> \/ Head(x) # Head(y) THEN 0
    ELSE 1 + CommonLen(Tail(x), Tail(y))

\* C17: order at equal depth. Of two addresses of the same bit-length
\* that agree on their first i bits and differ at bit i+1, the one with 0
\* there compares less; and in the sorted uniform-depth row that try_new
\* returns, the nodes that share a prefix are contiguous: a node between
\* two nodes shares every prefix that those two share.
C17_OrderAtEqualDepth ==
    /\ (pair.pc = "xy" /\ Depth(pair.x) = Depth(pair.y)) =>
          LET bx == BitString(pair.x)
              by == BitString(pair.y)
              i == CommonLen(bx, by)
          IN  bx # by => IdCmp(pair.x, pair.y) = IF bx[i + 1] = 0 THEN -1 ELSE 1
    /\ (pair.pc = "row" /\ pair.row.ok) =>
          LET row == pair.row.row
              bits == [i \in 1..Len(row) |-> BitString(row[i].id)]
          IN  \A j, k \in 1..Len(row) : \A m \in j..k :
                 CommonLen(bits[j], bits[m]) >= CommonLen(bits[j], bits[k])

\* C17 witness: a row of three nodes of two bytes; x and y agree on their
\* first 15 bits, the third was passed between them and is sorted after
\* both.
C17_Witness ==
    /\ pair.pc = "row" /\ pair.row.ok /\ Len(pair.row.row) = 3
    /\ pair.k1 = 16
    /\ CommonLen(BitString(pair.x), BitString(pair.y)) = 15
    /\ pair.row.row[1].id = pair.x
    /\ pair.row.row[2].id = pair.y
    /\ pair.row.row[3].id = pair.z
    /\ CommonLen(BitString(pair.x), BitString(pair.z)) < 15

\* C18: the two constructors agree. For every path, every byte last and
\* every bits in 1..8, new_id_with_last(path, last, bits) is
\* new_id(path ++ [last], 8*len(path) + bits), whatever the low (8 - bits)
\* bits of last; and new_id_with_last([], last, 0) is the empty ID for
\* every last.
C18_ConstructorsAgree ==
    (call.pc = "made" /\ call.op = "new_id_with_last") =>
        /\ call.bits \in 1..8 =>
              call.out = new_id(Append(call.path, call.last), 8 * Len(call.path) + call.bits)
        /\ (call.bits = 0 /\ call.path = <<>>) => call.out = default

\* C18 witness: a last byte with low bits set that are outside the bits
\* asked for, after a path of one byte.
C18_Witness ==
    /\ call.pc = "made" /\ call.op = "new_id_with_last"
    /\ call.last = 251 /\ call.bits = 5 /\ Len(call.path) = 1
    /\ call.out.last = 248

\* C19: in_subtree equals its definition. For every row S that try_new
\* built and every root R, S.in_subtree(R) is true if and only if S is not
\* empty and every element of S is longer than R and has R as its prefix
\* at R's length; so looking at the first and last elements only gives the
\* answer that looking at all would, a row with one boundary element
\* outside R is answered false, and so is the empty row.
C19_InSubtree ==
    pc = "asked" =>
        (asked.ans <=>
            (built.row # <<>>
             /\ \A i \in 1..Len(built.row) : StrictlyUnder(built.row[i].id, asked.root)))

\* C19 witness: a row whose first element is under the root and whose
\* last element is not.
C19_Witness ==
    /\ pc = "asked" /\ Len(built.row) >= 2
    /\ StrictlyUnder(built.row[1].id, asked.root)
    /\ ~StrictlyUnder(built.row[Len(built.row)].id, asked.root)
    /\ ~asked.ans

\* a value with the fields of an ID, each within its type
IsId(a) ==
    /\ DOMAIN a = {"path", "last", "bits"}
    /\ a.last \in 0..255
    /\ a.bits \in 0..8
    /\ \A i \in 1..Len(a.path) : a.path[i] \in 0..255

\* C20: precondition violations abort. new_id(B, k) with k > 8*len(B),
\* new_id_with_last with bits > 8 or with bits = 0 and a non-empty path,
\* and A.prefix(n) with n > A.bit_length() panic and return no ID; every
\* other call returns an ID.
C20_PanicsExactly ==
    call.pc \in {"made", "prefixed"} =>
        /\ IsPanic(call.out) <=>
              IF call.pc = "prefixed" THEN call.n > bit_length(call.recv)
              ELSE IF call.op = "new_id" THEN call.bits > 8 * Len(call.path)
              ELSE IF call.op = "new_id_with_last"
                   THEN call.bits > 8 \/ (call.bits = 0 /\ call.path # <<>>)
              ELSE FALSE
        /\ ~IsPanic(call.out) => IsId(call.out)

\* C20 witness: new_id_with_last panics on bits = 0 with a non-empty path.
C20_Witness ==
    /\ call.pc = "made" /\ call.op = "new_id_with_last"
    /\ call.bits = 0 /\ call.path # <<>>
    /\ IsPanic(call.out)

\* the characters of a sequence of bits
RECURSIVE BitChars(_)
BitChars(bits) ==
    IF bits = <<>> THEN <<>>
    ELSE <<IF Head(bits) = 1 THEN "1" ELSE "0">> \o BitChars(Tail(bits))

\* the full bytes as 8 digits and a space each
RECURSIVE ByteGroups(_)
ByteGroups(path) ==
    IF path = <<>> THEN <<>>
    ELSE BitChars(ByteBits(Head(path), 8)) \o <<" ">> \o ByteGroups(Tail(path))

IsDigit(c) == c \in {"0", "1"}

\* C21: textual rendering. The Display form of an address is '[', each
\* full byte as exactly 8 binary digits followed by one space, the
\* significant high bits of the partial byte as exactly `bits` digits, and
\* ']'; its digits read left to right are the address's bit string, so
\* there are bit_length() of them, and the empty address renders as "[]".
C21_Rendering ==
    call.pc = "shown" =>
        LET a == call.out
        IN  /\ call.text = <<"[">> \o ByteGroups(a.path)
                              \o BitChars(ByteBits(a.last, a.bits)) \o <<"]">>
            /\ SelectSeq(call.text, IsDigit) = BitChars(BitString(a))
            /\ Len(SelectSeq(call.text, IsDigit)) = bit_length(a)
            /\ (a = default => call.text = <<"[", "]">>)

\* C21 witness: an address of one full byte and a partial byte of five
\* bits whose first four are 0, as in "[00001010 00001]".
C21_Witness ==
    /\ call.pc = "shown"
    /\ Len(call.out.path) = 1 /\ call.out.bits = 5
    /\ call.out.last = 8
    /\ Len(call.text) = 16
    /\ call.text[10] = " " /\ call.text[11] = "0" /\ call.text[14] = "0"
    /\ call.text[15] = "1"

\* C22: exact-duplicate removal. For every vector that NodesRow::try_new
\* accepts, also one where an address comes with several hashes mixed with
\* exact duplicates, the row returned holds no two nodes equal in both
\* address and hash, whatever order the sort leaves equal addresses in.
C22_NoExactDuplicates ==
    (pc = "built" /\ built.ok) =>
        \A i, j \in 1..Len(built.row) : i # j => built.row[i] # built.row[j]

\* Tile::merge has returned from a call on non-empty leaves with a
\* non-empty update
CheckedMerge == Merged /\ was # <<>> /\ Updates # <<>>

\* every node of the row lies strictly under the root
AllUnder(row, root) == \A i \in 1..Len(row) : StrictlyUnder(row[i].id, root)

\* C23: order of the merge checks. On a tile with non-empty leaves the
\* depth comparison comes before the subtree check: a non-empty update at
\* another depth than the leaves gets the depth-mismatch error also when
\* it is outside the tile's root, and the out-of-subtree error is returned
\* only for updates at the depth of the leaves.
C23_DepthCheckedFirst ==
    CheckedMerge =>
        /\ Depth(Updates[1].id) # Depth(was[1].id) =>
              result = ErrTileDepth(Depth(Updates[1].id), Depth(was[1].id))
        /\ result = ErrNotInTile => Depth(Updates[1].id) = Depth(was[1].id)

\* C23 witness: an update at another depth than the leaves that is not
\* under the tile's root either.
C23_Witness ==
    /\ CheckedMerge
    /\ Depth(Updates[1].id) # Depth(was[1].id)
    /\ ~AllUnder(Updates, was_id)
    /\ ~result.ok /\ result.kind = "Updates are at depth"

\* C24: size of a merge result. When Tile::merge succeeds on non-empty
\* leaves L with a non-empty update U, there are |L| + |U| leaves
\* afterwards less the number of addresses common to L and U.
C24_MergeSize ==
    (CheckedMerge /\ result.ok) =>
        Len(leaves) = Len(was) + Len(Updates)
                        - Cardinality(Addrs(was) \cap Addrs(Updates))

\* C25: merge fails only in the two documented cases. Tile::merge returns
\* an error only for an update at another depth than the leaves or an
\* update not contained in the tile; once both checks pass, try_new on the
\* merged sequence returns no depth error and the merged leaves are
\* installed.
C25_OnlyTwoErrors ==
    Merged =>
        /\ ~result.ok =>
              /\ was # <<>> /\ Updates # <<>>
              /\ \/ /\ result.kind = "Updates are at depth"
                    /\ Depth(Updates[1].id) # Depth(was[1].id)
                 \/ /\ result.kind = "Updates are not entirely in this tile"
                    /\ ~AllUnder(Updates, was_id)
        /\ (CheckedMerge /\ Depth(Updates[1].id) = Depth(was[1].id)
                /\ AllUnder(Updates, was_id)) =>
              /\ result.ok
              /\ Addrs(leaves) = Addrs(was) \cup Addrs(Updates)

\* C25 witness: both checks passed and the merge installed a leaf that
\* was not there.
C25_Witness ==
    /\ CheckedMerge /\ result.ok
    /\ AllUnder(Updates, was_id)
    /\ Addrs(leaves) # Addrs(was)

\* C26: depth is fixed by the first adoption and leaves only grow. Once
\* the tile holds non-empty leaves at a depth, after every step the leaves
\* are non-empty, all at that depth, and their addresses include the
\* addresses held before.
C26_LeavesOnlyGrow ==
    [][leaves # <<>> =>
          /\ leaves' # <<>>
          /\ \A i \in 1..Len(leaves') : Depth(leaves'[i].id) = Depth(leaves[1].id)
          /\ Addrs(leaves) \subseteq Addrs(leaves')]_vars

\* C26 witness: a merge into non-empty leaves replaced the hash of one
\* leaf and added another.
C26_Witness ==
    /\ CheckedMerge /\ result.ok
    /\ Len(leaves) > Len(was)
    /\ \E n \in Elems(was) : n \notin Elems(leaves)

\* the nodes of a row at the addresses of none of the rows of a set
Outside(row, rows) == {n \in Elems(row) : \A r \in rows : n.id \notin Addrs(r)}

\* C27: sequential merges are last-writer-wins. On non-empty leaves L,
\* with two updates U1 and U2 that are both accepted, merging U1 and then
\* U2 leaves at every address the node of U2 if U2 has the address, else
\* that of U1 if U1 has it, else that of L; and if U1 and U2 have no
\* address in common, merging them in the other order gives the same
\* leaves.
C27_LastWriterWins ==
    (twice.pc = "b2" /\ twice.ra1.ok /\ twice.ra2.ok) =>
        /\ Elems(leaves) = Elems(twice.u2)
                              \cup Outside(twice.u1, {twice.u2})
                              \cup Outside(twice.l0, {twice.u1, twice.u2})
        /\ UniqueAddrs(leaves)
        /\ Addrs(twice.u1) \cap Addrs(twice.u2) = {} =>
              /\ twice.rb1.ok /\ twice.rb2.ok
              /\ twice.b = leaves

\* C28: in_subtree never aborts. For every row that try_new built and
\* every root, also a root as long as or longer than the elements,
\* in_subtree returns a boolean and calls prefix with no more bits than
\* the element has; for a root at least as long as the elements it
\* returns false.
C28_InSubtreeNoAbort ==
    pc = "asked" =>
        /\ ~IsPanic(asked)
        /\ asked.ans \in BOOLEAN
        /\ (built.row # <<>> /\ Depth(asked.root) >= Depth(built.row[1].id)) => ~asked.ans

\* C28 witness: a row of two nodes asked about a root longer than they
\* are.
C28_Witness ==
    /\ pc = "asked" /\ Len(built.row) = 2
    /\ Depth(asked.root) > Depth(built.row[1].id)
    /\ ~IsPanic(asked) /\ ~asked.ans

\* What holds of the i-th call of parallel_hash in every state.
SingleUse(i) ==
    LET c == hashing[i]
    IN  /\ c.channels = 1 /\ c.spawned = 1
        /\ c.worker = "done" =>
              /\ c.sends = 1
              /\ c.res = hash_image(c.buffer)
        /\ c.chan # <<>> => c.chan = <<hash_image(c.buffer)>>
        /\ c.caller = "returned" =>
              /\ c.got = hash_image(c.buffer)
              /\ c.received = 1
              /\ c.worker = "done"
        /\ c.caller = "panicked" => (c.worker = "panicked" /\ c.sends = 0)

\* C30: single-use completion channel in parallel_hash. Each call creates
\* one oneshot channel and spawns one worker; wherever hash_image returns
\* the worker sends exactly one message, the hash or the error; once the
\* worker has run, the caller that awaits receives exactly that message,
\* once; and the caller finds the channel closed only if the worker ended
\* without sending.
C30_SingleUseChannel ==
    /\ [](\A i \in Calls : SingleUse(i))
    /\ \A i \in 1..MaxCalls :
          (i \in Calls /\ hashing[i].worker = "done")
              ~> (i \in Calls /\ hashing[i].caller \in {"returned", "dropped"})

\* C30 witness: two calls; the first has returned the error of hash_image
\* to its caller while the worker of the second has not run.
C30_Witness ==
    /\ Len(hashing) = 2
    /\ hashing[1].caller = "returned" /\ ~hashing[1].got.ok
    /\ hashing[1].sends = 1
    /\ hashing[2].worker = "queued" /\ hashing[2].caller = "awaiting"

\* the positions of the log of a request at which a step was made
Did(step) == {k \in 1..Len(upload.log) : upload.log[k].step = step}

\* the positions at which a step was made and succeeded
DidOk(step) == {k \in Did(step) : upload.log[k].ok}

\* C29: upload ordering in accept_form. For each request the handler
\* processes at most one field that has a file name and then returns; the
\* INSERT is attempted only after the leaf was queued in the log; 201 is
\* returned only after both the log submission and the INSERT succeeded;
\* and a failure of hashing, log submission, connection checkout or INSERT
\* returns an error response and none of the later steps is made.
C29_UploadOrdering ==
    upload.pc # "idle" =>
        /\ Cardinality(Did("stream_to_file")) <= 1
        /\ Did("stream_to_file") # {} => upload.pc # "next_field"
        /\ \A k \in Did("INSERT") : \E j \in DidOk("add_hash_to_tree") : j < k
        /\ upload.status = 201 =>
              /\ upload.pc = "done"
              /\ \E j \in DidOk("add_hash_to_tree") : \E k \in DidOk("INSERT") : j < k
        /\ \A k \in 1..Len(upload.log) :
              ~upload.log[k].ok =>
                  /\ k = Len(upload.log)
                  /\ upload.pc = "done"
                  /\ upload.status \in {400, 409, 503}

\* C29 witness: the last field of a request was an image that was
\* hashed; the leaf was queued and the INSERT failed on a duplicate.
C29_Witness ==
    /\ upload.pc = "done" /\ upload.status = 409
    /\ upload.field.named /\ Len(upload.fields) = 0
    /\ Len(upload.log) = 4
    /\ DidOk("add_hash_to_tree") = {2}
    /\ Did("INSERT") = {4}

====
